---- MODULE Spec2Model ----
(***************************************************************************)
(* Conniebot (src/src/conniebot.ts): the event handlers of the bot, their  *)
(* suspension points, the reply records and the crash handler.             *)
(*                                                                         *)
(* Every `await` of the source is a separate step: the handler that issued *)
(* the operation stays at a program counter until the operation resolves   *)
(* or rejects, and other handlers may run in between.                      *)
(*                                                                         *)
(* Operations that may reject: readdir and readFile, the transport's send, *)
(* react and delete, and the database writes addMessage, deleteMessage and *)
(* addError.  The lookup getMessageAuthor always answers.                  *)
(*                                                                         *)
(* A handler whose promise is rejected stays at the program counter        *)
(* "fault".  For the react() that x2iExec does not await, the model also   *)
(* follows what the runtime does with the unhandled rejection.             *)
(***************************************************************************)
EXTENDS Integers, Sequences, FiniteSets, TLC

(* ------------------------------ bounds -------------------------------- *)
\* user messages posted in the channel
MaxMsgs == 2
\* reaction events delivered
MaxReactions == 2
\* error / uncaught-exception events delivered
MaxFaults == 2
\* events the transport and the runtime deliver in all
MaxEvents == 2
\* rule files in the x2i directory
NumFiles == 2
\* config.timeoutChars, the character limit of one reply
TimeoutChars == 2
\* character limits tried on the truncation of x2iExec alone
MaxLimit == 3
\* length, in symbols, of the texts tried on command() alone
MaxText == 6

(* ---------------------------- vocabulary ------------------------------ *)
Bot == "bot"
Humans == {"alice", "bob"}
Users == Humans \cup {Bot}
DeleteEmoji == "x"
Emojis == {DeleteEmoji, "y"}
Undefined == "undefined"
Ellipsis == "..."
RuleFiles == 1..NumFiles
Commands == {"greet"}
ErrKinds == {"ECONNRESET", "other", "nomessage"}

Chars == {"a", "b"}
\* a text of n characters
RECURSIVE TextOfLen(_)
TextOfLen(n) == IF n = 0 THEN <<>> ELSE Append(TextOfLen(n - 1), IF n % 2 = 1 THEN "a" ELSE "b")

\* what a posted message can be: the output the rule engine renders for it
\* (empty: no rule matches) and the command token after the prefix
\* ("": the text does not start with the prefix; "nope": a token that names
\* no property of this.commands).  How command() takes a text apart is
\* modelled on its own, further down.
Contents ==
    {[results |-> TextOfLen(n), cmd |-> "greet"] : n \in TimeoutChars..(TimeoutChars + 1)}
    \cup {[results |-> <<>>, cmd |-> c] : c \in {"", "greet", "nope"}}

VARIABLES
    ready,      \* Conniebot.ready
    x2i,        \* Conniebot.x2i: [def, sets], the rule files the matcher holds
    spc,        \* where startup() is
    filesRead,  \* rule files whose readFile has resolved
    malformed,  \* rule files whose document yaml.safeLoad rejects
    notifying,  \* the notices startup() sends without awaiting them (notifyRestart,
                \* notifyNewErrors): idle, inflight (one is pending), done
    msgs,       \* every message ever in the channel, by id
    channel,    \* ids of the messages that exist in the transport
    pipe,       \* one parse() per delivered message, by message id
    tagging,    \* responseMessage.react(deleteEmoji), by reply: "called", or
                \* "rejected" once its promise, which nobody awaits, was rejected
    records,    \* db: ReplyRecords by origin message id
    reacts,     \* one reactDeleteMessage() per delivered reaction event
    faults,     \* one entry per error / uncaughtException event
    errors,     \* db: number of ErrorRecords
    armed,      \* process.once("uncaughtException") listener still registered
    exited,     \* process has exited
    tText, tLimit, tOut, tpc,  \* truncation of x2iExec alone: input, limit, output
    rText, rOut, rpc           \* command() alone: message text, what it did

botVars == <<ready, x2i, spc, filesRead, malformed, notifying, msgs, channel, pipe,
             tagging, records, reacts, faults, errors, armed, exited>>
truncVars == <<tText, tLimit, tOut, tpc>>
routeVars == <<rText, rOut, rpc>>
pureVars == <<truncVars, routeVars>>
vars == <<botVars, pureVars>>

startVars == <<ready, x2i, spc, filesRead, malformed, notifying>>
msgVars == <<msgs, channel, pipe, tagging, records>>
crashVars == <<faults, errors, armed, exited>>

(* ------------------------------ startup ------------------------------- *)
NoMatcher == [def |-> FALSE, sets |-> {}]

\* the rejection of loadKeys() leaves startup() rejected: nothing is assigned
AbortStartup ==
    /\ spc' = "failed"
    /\ UNCHANGED <<ready, x2i>>

\* the end of startup() once loadKeys() has the documents `loaded`, of which
\* yaml.safeLoad rejects `bad`: this.x2i = new X2IMatcher(...); this.ready = true
FinishStartupPartial(loaded, bad) ==
    /\ x2i' = [def |-> TRUE, sets |-> loaded \ bad]
    /\ ready' = TRUE
    /\ spc' = "done"
FinishStartup(loaded, bad) ==
    IF bad = {}
      THEN /\ x2i' = [def |-> TRUE, sets |-> loaded]
           /\ ready' = TRUE
           /\ spc' = "done"
      ELSE AbortStartup

\* "ready" event: startup() runs up to its await of loadKeys(), which runs up
\* to its await of readdir
ReadyEventSetsReady ==
    /\ ~exited
    /\ spc = "idle"
    /\ notifying' = "inflight"
    /\ spc' = "readdir"
    /\ ready' = TRUE
    /\ UNCHANGED <<x2i, filesRead, malformed>>
    /\ UNCHANGED <<msgVars, reacts, crashVars, pureVars>>
ReadyEvent ==
    /\ ~exited
    /\ spc = "idle"
    /\ notifying' = "inflight"
    /\ spc' = "readdir"
    /\ UNCHANGED <<ready, x2i, filesRead, malformed>>
    /\ UNCHANGED <<msgVars, reacts, crashVars, pureVars>>

\* readdir resolves: every readFile is issued (Promise.all)
ReaddirOk ==
    /\ ~exited
    /\ spc = "readdir"
    /\ IF RuleFiles = {}
         THEN FinishStartup({}, {})
         ELSE spc' = "reading" /\ UNCHANGED <<ready, x2i>>
    /\ UNCHANGED <<filesRead, malformed, notifying>>
    /\ UNCHANGED <<msgVars, reacts, crashVars, pureVars>>

ReaddirFail ==
    /\ ~exited
    /\ spc = "readdir"
    /\ AbortStartup
    /\ UNCHANGED <<filesRead, malformed, notifying>>
    /\ UNCHANGED <<msgVars, reacts, crashVars, pureVars>>

\* one readFile resolves; with the last one Promise.all resolves and loadKeys
\* parses every document
ReadFileOk(f) ==
    /\ ~exited
    /\ spc = "reading"
    /\ f \in RuleFiles \ filesRead
    /\ filesRead' = filesRead \cup {f}
    /\ IF filesRead' = RuleFiles
         THEN \E bad \in SUBSET RuleFiles :
                 /\ malformed' = bad
                 /\ FinishStartup(filesRead', bad)
         ELSE UNCHANGED <<ready, x2i, spc, malformed>>
    /\ UNCHANGED notifying
    /\ UNCHANGED <<msgVars, reacts, crashVars, pureVars>>

\* one readFile rejects: Promise.all rejects
ReadFileFail(f) ==
    /\ ~exited
    /\ spc = "reading"
    /\ f \in RuleFiles \ filesRead
    /\ AbortStartup
    /\ UNCHANGED <<filesRead, malformed, notifying>>
    /\ UNCHANGED <<msgVars, reacts, crashVars, pureVars>>

\* the last of the notices startup() did not await completes
NotifyDone ==
    /\ ~exited
    /\ notifying = "inflight"
    /\ notifying' = "done"
    /\ UNCHANGED <<ready, x2i, spc, filesRead, malformed>>
    /\ UNCHANGED <<msgVars, reacts, crashVars, pureVars>>

(* ------------------------- message pipeline --------------------------- *)
Min(a, b) == IF a < b THEN a ELSE b

\* String.prototype.slice(0, n) for n >= 0
Slice(s, n) == SubSeq(s, 1, Min(n, Len(s)))

PlainReply(text) == [kind |-> "text", text |-> text]
\* formatObject(config.timeoutMessage, ...), as a string or as an embed
TimeoutNotice == [kind |-> "timeout", text |-> <<>>]

\* x2iExec, the responses of non-empty results under the limit timeoutChars
Responses(results, limit) ==
    IF Len(results) > limit
      THEN <<PlainReply(Append(Slice(results, limit), Ellipsis)), TimeoutNotice>>
      ELSE <<PlainReply(results)>>

\* x2iExec of the second Conniebot definition: slice(0, charMax - 1)
ResponsesLegacy(results, limit) ==
    IF Len(results) > limit
      THEN <<PlainReply(Append(Slice(results, limit - 1), Ellipsis)), TimeoutNotice>>
      ELSE <<PlainReply(results)>>

\* this.x2i ? this.x2i.search(message.content).join("\n") : ""
Search(matcher, content) == IF matcher.def THEN content.results ELSE <<>>

NoContent == [results |-> <<>>, cmd |-> ""]

\* a parse() that returned at once keeps nothing of its message
Idle == [pc |-> "done", gate |-> TRUE, content |-> NoContent, parsed |-> FALSE,
         responses |-> <<>>, sent |-> <<>>, log |-> "none", routed |-> FALSE,
         invoked |-> "none", cmdLog |-> "none"]

\* command(): no match, unregistered token, or the handler is awaited
Command(rec, content) ==
    IF content.cmd = "" THEN [rec EXCEPT !.pc = "done", !.routed = TRUE]
    ELSE IF content.cmd \notin Commands THEN [rec EXCEPT !.pc = "done", !.routed = TRUE]
    ELSE [rec EXCEPT !.pc = "callback", !.routed = TRUE, !.invoked = content.cmd]

\* what x2iExec returns: parsed, whether or not the sends succeeded
X2iResultOnFailure(parsed, ok) == parsed /\ ok
X2iResult(parsed, ok) == parsed

\* parse() after its await of x2iExec
AfterX2i(rec, content, ok) ==
    IF X2iResult(rec.parsed, ok) THEN [rec EXCEPT !.pc = "done"]
    ELSE Command(rec, content)

\* the loop over responses after `sent` of them were sent and pushed: the
\* next send, or db.addMessage once the loop is through
LoopStepSkips(sent, responses) == "persist"
LoopStep(sent, responses) ==
    IF Len(sent) < Len(responses) THEN "send" ELSE "persist"

\* message.author.bot
IsBotNever(author) == FALSE
IsBot(author) == author = Bot

\* parse() up to its first suspension point
Parse(matcher, author, content) ==
    IF IsBot(author) THEN Idle
    ELSE LET results == Search(matcher, content)
             parsed == results # <<>>
         IN  IF parsed
               THEN [Idle EXCEPT !.pc = LoopStep(<<>>, Responses(results, TimeoutChars)),
                                 !.parsed = TRUE, !.content = content,
                                 !.responses = Responses(results, TimeoutChars)]
               ELSE AfterX2i([Idle EXCEPT !.content = content], content, TRUE)

\* the "message" listener
MessageListenerNoGate(rdy, matcher, author, content) ==
    [Parse(matcher, author, content) EXCEPT !.gate = rdy]
MessageListener(rdy, matcher, author, content) ==
    IF rdy THEN Parse(matcher, author, content)
    ELSE [Idle EXCEPT !.pc = "dropped", !.gate = FALSE]

\* db.addMessage(message, responseMessages)
AddMessage(recs, origin, author, replies) ==
    (origin :> [author |-> author, replies |-> replies]) @@ recs

\* the messages that users (or other bots) posted, as opposed to the replies
\* the bot sent itself
Posted == {p \in DOMAIN pipe : msgs[p].origin = 0}

Events == Cardinality(Posted) + Len(reacts) + Len(faults)

\* a user (or the bot) posts a message and the transport delivers its event
OnMessage(u, c) ==
    /\ ~exited
    /\ Events < MaxEvents
    /\ Cardinality(Posted) < MaxMsgs
    /\ LET id == Len(msgs) + 1
       IN  /\ msgs' = Append(msgs, [author |-> u, origin |-> 0])
           /\ channel' = channel \cup {id}
           /\ pipe' = pipe @@ (id :> MessageListener(ready, x2i, u, c))
    /\ UNCHANGED <<tagging, records>>
    /\ UNCHANGED <<startVars, reacts, crashVars, pureVars>>

\* message.channel.send resolves: the reply exists, its react is fired and not
\* awaited, and the loop issues the next send or db.addMessage.  The transport
\* delivers the reply to the "message" listener like any other message; the
\* reply is taken to read like the text it answers, which the rules transform
SendOk(p) ==
    /\ ~exited
    /\ p \in DOMAIN pipe
    /\ pipe[p].pc = "send"
    /\ LET id == Len(msgs) + 1
           rec == pipe[p]
           sent == Append(rec.sent, id)
       IN  /\ msgs' = Append(msgs, [author |-> Bot, origin |-> p])
           /\ channel' = channel \cup {id}
           /\ tagging' = tagging @@ (id :> "called")
           /\ pipe' = [pipe EXCEPT ![p] =
                   [rec EXCEPT !.sent = sent, !.pc = LoopStep(sent, rec.responses)]]
                 @@ (id :> MessageListener(ready, x2i, Bot, rec.content))
    /\ UNCHANGED records
    /\ UNCHANGED <<startVars, reacts, crashVars, pureVars>>

\* what the catch block of x2iExec persists: nothing
CatchPersistsPartial(recs, origin, author, replies) ==
    IF replies = <<>> THEN recs ELSE AddMessage(recs, origin, author, replies)
CatchPersists(recs, origin, author, replies) == recs

\* message.channel.send rejects: the catch block logs and x2iExec returns
SendFail(p) ==
    /\ ~exited
    /\ p \in DOMAIN pipe
    /\ pipe[p].pc = "send"
    /\ pipe' = [pipe EXCEPT ![p] =
          AfterX2i([pipe[p] EXCEPT !.log = "error"], pipe[p].content, FALSE)]
    /\ records' = CatchPersists(records, p, msgs[p].author, pipe[p].sent)
    /\ UNCHANGED <<msgs, channel, tagging>>
    /\ UNCHANGED <<startVars, reacts, crashVars, pureVars>>

\* responseMessages, the array x2iExec hands to db.addMessage: created by the
\* call of x2iExec that fills it, it holds what this call has sent
ResponseMessagesShared(all, rec) ==
    SelectSeq([i \in 1..Len(all) |-> i], LAMBDA i : all[i].author = Bot)
ResponseMessages(all, rec) == rec.sent

\* db.addMessage resolves
PersistOk(p) ==
    /\ ~exited
    /\ p \in DOMAIN pipe
    /\ pipe[p].pc = "persist"
    /\ records' = AddMessage(records, p, msgs[p].author, ResponseMessages(msgs, pipe[p]))
    /\ pipe' = [pipe EXCEPT ![p] =
          AfterX2i([pipe[p] EXCEPT !.log = "success"], pipe[p].content, TRUE)]
    /\ UNCHANGED <<msgs, channel, tagging>>
    /\ UNCHANGED <<startVars, reacts, crashVars, pureVars>>

\* db.addMessage rejects
PersistFail(p) ==
    /\ ~exited
    /\ p \in DOMAIN pipe
    /\ pipe[p].pc = "persist"
    /\ pipe' = [pipe EXCEPT ![p] =
          AfterX2i([pipe[p] EXCEPT !.log = "error"], pipe[p].content, FALSE)]
    /\ UNCHANGED <<msgs, channel, tagging, records>>
    /\ UNCHANGED <<startVars, reacts, crashVars, pureVars>>

\* command() after its await of the handler: the try block logs success, the
\* catch block logs the error, and command() returns
AfterCallbackPropagates(rec, ok) ==
    [rec EXCEPT !.pc = IF ok THEN "done" ELSE "fault",
                !.cmdLog = IF ok THEN "success" ELSE "none"]
AfterCallback(rec, ok) ==
    [rec EXCEPT !.pc = "done", !.cmdLog = IF ok THEN "success" ELSE "error"]

\* the command handler resolves or rejects
CallbackDone(p, ok) ==
    /\ ~exited
    /\ p \in DOMAIN pipe
    /\ pipe[p].pc = "callback"
    /\ pipe' = [pipe EXCEPT ![p] = AfterCallback(pipe[p], ok)]
    /\ UNCHANGED <<msgs, channel, tagging, records>>
    /\ UNCHANGED <<startVars, reacts, crashVars, pureVars>>

(* ------------------------ reaction / deletion ------------------------- *)
Range(f) == {f[i] : i \in DOMAIN f}

\* db: the origins whose record lists message m, as origin or as a reply
FindRecord(recs, m) ==
    {o \in DOMAIN recs : o = m \/ m \in Range(recs[o].replies)}

\* db.getMessageAuthor(message)
GetMessageAuthor(recs, m) ==
    IF FindRecord(recs, m) = {} THEN Undefined
    ELSE recs[CHOOSE o \in FindRecord(recs, m) : TRUE].author

\* db.deleteMessage(message)
DeleteMessage(recs, m) ==
    [o \in DOMAIN recs \ FindRecord(recs, m) |-> recs[o]]

\* user.id === this.bot.user?.id
IsSelf(user) == user = Bot

\* the rest of the early return of reactDeleteMessage, once the author is known
DeleteGuardAnyUser(user, author, emoji) == author = Undefined \/ emoji # DeleteEmoji
DeleteGuardEmojiOnly(user, author, emoji) == emoji # DeleteEmoji
DeleteGuard(user, author, emoji) == user # author \/ emoji # DeleteEmoji

NoReact == [msg |-> 0, user |-> Bot, emoji |-> DeleteEmoji, gate |-> TRUE, pc |-> "done",
            author |-> Undefined, auth |-> FALSE, after |-> FALSE, td |-> 0, rd |-> 0]

\* an earlier identical reaction has been processed to the end of the handler
ProcessedBefore(hs, m, u, e) ==
    \E i \in DOMAIN hs :
        /\ hs[i].msg = m /\ hs[i].user = u /\ hs[i].emoji = e
        /\ hs[i].pc = "done" /\ hs[i].rd = 1

\* the "messageReactionAdd" listener, up to the await of db.getMessageAuthor
ReactionListener(rdy, user) ==
    IF ~rdy THEN "dropped"
    ELSE IF IsSelf(user) THEN "done" ELSE "lookup"

\* a user reacts on a message and the transport delivers the event
OnReaction(m, u, e) ==
    /\ ~exited
    /\ Events < MaxEvents
    /\ Len(reacts) < MaxReactions
    /\ m \in DOMAIN msgs
    /\ LET pc == ReactionListener(ready, u)
       IN  reacts' = Append(reacts,
             IF pc = "dropped" THEN [NoReact EXCEPT !.gate = FALSE, !.pc = pc]
             ELSE [NoReact EXCEPT
                     !.msg = m, !.user = u, !.emoji = e, !.gate = ready, !.pc = pc,
                     !.auth = /\ ready
                              /\ msgs[m].origin # 0
                              /\ e = DeleteEmoji
                              /\ u # Bot
                              /\ GetMessageAuthor(records, m) = u,
                     !.after = ProcessedBefore(reacts, m, u, e)])
    /\ UNCHANGED <<startVars, msgVars, crashVars, pureVars>>

\* db.getMessageAuthor resolves: the guard is decided, and reaction.message.delete()
\* is issued when it lets the reaction through
LookupOk(h) ==
    /\ ~exited
    /\ h \in DOMAIN reacts
    /\ reacts[h].pc = "lookup"
    /\ LET r == reacts[h]
           author == GetMessageAuthor(records, r.msg)
       IN  reacts' = [reacts EXCEPT ![h] =
              IF DeleteGuard(r.user, author, r.emoji)
                THEN [r EXCEPT !.author = author, !.pc = "done"]
                ELSE [r EXCEPT !.author = author, !.pc = "delete", !.td = 1]]
    /\ UNCHANGED <<startVars, msgVars, crashVars, pureVars>>

\* reaction.message.delete() resolves: db.deleteMessage is issued
DeleteOk(h) ==
    /\ ~exited
    /\ h \in DOMAIN reacts
    /\ reacts[h].pc = "delete"
    /\ reacts[h].msg \in channel
    /\ channel' = channel \ {reacts[h].msg}
    /\ reacts' = [reacts EXCEPT ![h] = [@ EXCEPT !.pc = "dbdelete", !.rd = 1]]
    /\ UNCHANGED <<msgs, pipe, tagging, records>>
    /\ UNCHANGED <<startVars, crashVars, pureVars>>

\* db.deleteMessage resolves
DbDeleteOk(h) ==
    /\ ~exited
    /\ h \in DOMAIN reacts
    /\ reacts[h].pc = "dbdelete"
    /\ records' = DeleteMessage(records, reacts[h].msg)
    /\ reacts' = [reacts EXCEPT ![h] = [@ EXCEPT !.pc = "done"]]
    /\ UNCHANGED <<msgs, channel, pipe, tagging>>
    /\ UNCHANGED <<startVars, crashVars, pureVars>>

\* where reactDeleteMessage is after its await of reaction.message.delete()
\* rejected: the rejection leaves the function, db.deleteMessage is not called
AfterDeleteFailContinues == "dbdelete"
AfterDeleteFail == "fault"

\* reaction.message.delete() rejects (as it does for a message that no longer
\* exists): the handler's promise is rejected and nothing catches it
DeleteFail(h) ==
    /\ ~exited
    /\ h \in DOMAIN reacts
    /\ reacts[h].pc = "delete"
    /\ reacts' = [reacts EXCEPT ![h] = [@ EXCEPT !.pc = AfterDeleteFail]]
    /\ UNCHANGED <<startVars, msgVars, crashVars, pureVars>>

\* db.deleteMessage rejects: likewise
DbDeleteFail(h) ==
    /\ ~exited
    /\ h \in DOMAIN reacts
    /\ reacts[h].pc = "dbdelete"
    /\ reacts' = [reacts EXCEPT ![h] = [@ EXCEPT !.pc = "fault"]]
    /\ UNCHANGED <<startVars, msgVars, crashVars, pureVars>>

(* --------------------------- crash handling --------------------------- *)
\* err && err.message && err.message.includes("ECONNRESET")
IsConnReset(kind) == kind = "ECONNRESET"

NoFault == [reset |-> FALSE, src |-> "error", pc |-> "ignored", written |-> 0]

\* the "error" listener: a connection reset is logged, anything else goes to
\* panicResponsibly, which awaits db.addError
OnError(kind) ==
    /\ ~exited
    /\ Events < MaxEvents
    /\ Len(faults) < MaxFaults
    /\ faults' = Append(faults,
          [NoFault EXCEPT !.reset = (kind = "ECONNRESET"),
                          !.pc = IF IsConnReset(kind) THEN "ignored" ELSE "write"])
    /\ UNCHANGED <<errors, armed, exited>>
    /\ UNCHANGED <<startVars, msgVars, reacts, pureVars>>

\* the runtime emits uncaughtException: the listener registered with
\* process.once runs panicResponsibly the first time; afterwards no listener
\* is left and the runtime ends the process
Uncaught(src) ==
    /\ faults' = Append(faults,
          [NoFault EXCEPT !.src = src,
                          !.pc = IF armed THEN "write" ELSE "crashed"])
    /\ armed' = FALSE
    /\ exited' = ~armed
    /\ UNCHANGED errors

\* an exception nothing catches
OnUncaught ==
    /\ ~exited
    /\ Events < MaxEvents
    /\ Len(faults) < MaxFaults
    /\ Uncaught("uncaught")
    /\ UNCHANGED <<startVars, msgVars, reacts, pureVars>>

\* the react() of reply m, which x2iExec called without awaiting it, rejects
\* (missing permission, reply already deleted, transport fault).  Nothing
\* handles the rejection: depending on its version and flags the runtime only
\* warns, or (thrown) raises it as an uncaught exception
TagFail(m, thrown) ==
    /\ ~exited
    /\ m \in DOMAIN tagging
    /\ tagging[m] = "called"
    /\ msgs[m].origin \in DOMAIN pipe
    /\ tagging' = [tagging EXCEPT ![m] = "rejected"]
    /\ IF thrown THEN Uncaught("rejection") ELSE UNCHANGED crashVars
    /\ UNCHANGED <<msgs, channel, pipe, records>>
    /\ UNCHANGED <<startVars, reacts, pureVars>>

\* db.addError writes the ErrorRecord
PanicWriteOk(f) ==
    /\ ~exited
    /\ f \in DOMAIN faults
    /\ faults[f].pc = "write"
    /\ errors' = errors + 1
    /\ faults' = [faults EXCEPT ![f] = [@ EXCEPT !.pc = "exit", !.written = @ + 1]]
    /\ UNCHANGED <<armed, exited>>
    /\ UNCHANGED <<startVars, msgVars, reacts, pureVars>>

\* db.addError rejects: panicResponsibly is left rejected before process.exit
PanicWriteFail(f) ==
    /\ ~exited
    /\ f \in DOMAIN faults
    /\ faults[f].pc = "write"
    /\ faults' = [faults EXCEPT ![f] = [@ EXCEPT !.pc = "fault"]]
    /\ UNCHANGED <<errors, armed, exited>>
    /\ UNCHANGED <<startVars, msgVars, reacts, pureVars>>

\* panicResponsibly resumes after its await: if (exit) process.exit(1)
PanicExit(f) ==
    /\ ~exited
    /\ f \in DOMAIN faults
    /\ faults[f].pc = "exit"
    /\ exited' = TRUE
    /\ faults' = [faults EXCEPT ![f] = [@ EXCEPT !.pc = "exited"]]
    /\ UNCHANGED <<errors, armed>>
    /\ UNCHANGED <<startVars, msgVars, reacts, pureVars>>

(* ------------------------- command(), on its own ---------------------- *)
\* message.content as a sequence of symbols: the configured prefix, a space,
\* or a word without white space; the texts have no line breaks
Prefix == "!"
Space == " "
\* names every object inherits from Object.prototype, as `in` finds them on
\* this.commands = {}
ObjectPrototype == {"constructor", "__proto__"}
Words == Commands \cup {"alice"} \cup ObjectPrototype
Symbols == {Prefix, Space} \cup Words

\* (\S*): the longest run of symbols other than the space
RECURSIVE Token(_)
Token(s) ==
    IF s = <<>> \/ Head(s) = Space THEN <<>>
    ELSE <<Head(s)>> \o Token(Tail(s))

\* s without its first n symbols
Drop(s, n) == SubSeq(s, n + 1, Len(s))

\* message.content.match(prefixRegex), the regular expression being
\* ^prefix(\S*) ?(.*) with the prefix escaped
Toks(text) ==
    IF text = <<>> \/ Head(text) # Prefix
      THEN [matched |-> FALSE, cmd |-> <<>>, args |-> <<>>]
      ELSE LET cmd == Token(Tail(text))
               after == Drop(Tail(text), Len(cmd))
           IN  [matched |-> TRUE, cmd |-> cmd,
                args |-> IF after # <<>> /\ Head(after) = Space THEN Tail(after) ELSE after]

\* String.prototype.split(" ")
RECURSIVE Split(_)
Split(s) ==
    LET first == Token(s)
    IN  IF Len(first) = Len(s) THEN <<first>>
        ELSE <<first>> \o Split(Drop(s, Len(first) + 1))

\* cmd in this.commands: an own property (a registered command) or a property
\* this.commands inherits
InCommands(cmd) == Len(cmd) = 1 /\ cmd[1] \in Commands \cup ObjectPrototype

NoRoute == [handler |-> "none", calls |-> 0, args |-> <<>>, log |-> "none", fault |-> FALSE]

\* command() on a message with this text, the function it calls resolving
\* (ok) or rejecting
Route(text, ok) ==
    LET toks == Toks(text)
    IN  IF ~toks.matched THEN NoRoute
        ELSE IF ~InCommands(toks.cmd) THEN NoRoute
        ELSE IF toks.cmd[1] = "__proto__"
          \* this.commands["__proto__"] is Object.prototype, which has no bind:
          \* line 140 throws outside the try block
          THEN [NoRoute EXCEPT !.fault = TRUE]
        ELSE [NoRoute EXCEPT
                !.handler = IF toks.cmd[1] \in Commands THEN toks.cmd[1] ELSE "Object",
                !.calls = 1,
                !.args = Split(toks.args),
                \* Object(message, ...) returns its argument; a registered
                \* handler resolves or rejects
                !.log = IF toks.cmd[1] \in Commands /\ ~ok THEN "error" ELSE "success"]

RouteIdle ==
    /\ rText = <<>>
    /\ rOut = NoRoute
    /\ rpc = "off"

\* every text over Symbols of length 0..n
RECURSIVE RouteTexts(_)
RouteTexts(n) ==
    IF n = 0 THEN {<<>>}
    ELSE RouteTexts(n - 1) \cup [1..n -> Symbols]

(* ------------------------------- Init --------------------------------- *)
\* what an earlier run of the bot can have left in the channel and in the
\* database file the constructor opens: nothing, or a message of alice with
\* its recorded reply, in one part or in two
NoPriorRun == [msgs |-> <<>>, records |-> <<>>]
PriorRun(parts) ==
    [msgs |-> <<[author |-> "alice", origin |-> 0]>>
                 \o [i \in 1..parts |-> [author |-> Bot, origin |-> 1]],
     records |-> (1 :> [author |-> "alice", replies |-> [i \in 1..parts |-> i + 1]])]
PriorRuns == {NoPriorRun, PriorRun(1), PriorRun(2)}

BotInit ==
    /\ ready = FALSE
    /\ x2i = NoMatcher
    /\ spc = "idle"
    /\ filesRead = {}
    /\ malformed = {}
    /\ notifying = "idle"
    /\ \E prior \in PriorRuns :
          /\ msgs = prior.msgs
          /\ channel = DOMAIN prior.msgs
          /\ tagging = [m \in {n \in DOMAIN prior.msgs : prior.msgs[n].origin # 0}
                           |-> "called"]
          /\ records = prior.records
    /\ pipe = <<>>
    /\ reacts = <<>>
    /\ faults = <<>>
    /\ errors = 0
    /\ armed = TRUE
    /\ exited = FALSE

TruncIdle ==
    /\ tText = <<>>
    /\ tLimit = 1
    /\ tOut = <<>>
    /\ tpc = "off"

Init == BotInit /\ TruncIdle /\ RouteIdle

(* ----------------------- truncation, on its own ----------------------- *)
\* every text over Chars of length 1..n
RECURSIVE TextsUpTo(_)
TextsUpTo(n) ==
    IF n = 0 THEN {}
    ELSE TextsUpTo(n - 1) \cup [1..n -> Chars]

TruncInit ==
    /\ BotInit
    /\ tText \in TextsUpTo(MaxLimit + 1)
    /\ tLimit \in 1..MaxLimit
    /\ tOut = <<>>
    /\ tpc = "input"
    /\ RouteIdle

\* x2iExec of the Conniebot class with the ready flag
TruncCurrent ==
    /\ tpc = "input"
    /\ tOut' = Responses(tText, tLimit)
    /\ tpc' = "current"
    /\ UNCHANGED <<tText, tLimit, botVars, routeVars>>

\* x2iExec of the second Conniebot class of the file
TruncLegacy ==
    /\ tpc = "input"
    /\ tOut' = ResponsesLegacy(tText, tLimit)
    /\ tpc' = "legacy"
    /\ UNCHANGED <<tText, tLimit, botVars, routeVars>>

TruncNext == TruncCurrent \/ TruncLegacy

SpecTrunc == TruncInit /\ [][TruncNext]_vars

(* ------------------------ command(), on its own ----------------------- *)
RouteInit ==
    /\ BotInit
    /\ records = <<>>
    /\ TruncIdle
    /\ rText \in RouteTexts(MaxText)
    /\ rOut = NoRoute
    /\ rpc = "input"

RouteCommand(ok) ==
    /\ rpc = "input"
    /\ rOut' = Route(rText, ok)
    /\ rpc' = "routed"
    /\ UNCHANGED <<rText, botVars, truncVars>>

RouteNext == \E ok \in BOOLEAN : RouteCommand(ok)

SpecRoute == RouteInit /\ [][RouteNext]_vars

Next ==
    \/ ReadyEvent
    \/ ReaddirOk
    \/ ReaddirFail
    \/ \E f \in RuleFiles : ReadFileOk(f)
    \/ \E f \in RuleFiles : ReadFileFail(f)
    \/ NotifyDone
    \/ \E u \in Users, c \in Contents : OnMessage(u, c)
    \/ \E p \in DOMAIN pipe : SendOk(p)
    \/ \E p \in DOMAIN pipe : SendFail(p)
    \/ \E p \in DOMAIN pipe : PersistOk(p)
    \/ \E p \in DOMAIN pipe : PersistFail(p)
    \/ \E p \in DOMAIN pipe, ok \in BOOLEAN : CallbackDone(p, ok)
    \/ \E m \in DOMAIN msgs, u \in Users, e \in Emojis : OnReaction(m, u, e)
    \/ \E h \in DOMAIN reacts : LookupOk(h)
    \/ \E h \in DOMAIN reacts : DeleteOk(h)
    \/ \E h \in DOMAIN reacts : DbDeleteOk(h)
    \/ \E h \in DOMAIN reacts : DeleteFail(h)
    \/ \E h \in DOMAIN reacts : DbDeleteFail(h)
    \/ \E k \in ErrKinds : OnError(k)
    \/ OnUncaught
    \/ \E m \in DOMAIN tagging, thrown \in BOOLEAN : TagFail(m, thrown)
    \/ \E f \in DOMAIN faults : PanicWriteOk(f)
    \/ \E f \in DOMAIN faults : PanicWriteFail(f)
    \/ \E f \in DOMAIN faults : PanicExit(f)

Spec == Init /\ [][Next]_vars

(* ------------------------------ claims -------------------------------- *)
\* ids of the replies sent for origin p
RepliesOf(p) == {m \in DOMAIN msgs : msgs[m].origin = p}

\* a set of ids as the sequence of its elements in increasing order
RECURSIVE Ascending(_)
Ascending(S) ==
    IF S = {} THEN <<>>
    ELSE LET lo == CHOOSE x \in S : \A y \in S : x <= y
         IN  <<lo>> \o Ascending(S \ {lo})

\* the author of the message that m answers (of m itself when m is no reply)
OriginAuthor(m) ==
    IF msgs[m].origin = 0 THEN msgs[m].author ELSE msgs[msgs[m].origin].author

\* C1: a message event or a reaction event delivered while ready is false has
\* no effect, then or later: its handler is dropped for good, no reply is
\* sent for it, no ReplyRecord is created or deleted, no message is deleted
\* and no command handler is invoked.
C1_ReadinessGate ==
    /\ \A p \in DOMAIN pipe :
          ~pipe[p].gate =>
              /\ pipe[p].pc = "dropped"
              /\ pipe[p].sent = <<>>
              /\ RepliesOf(p) = {}
              /\ p \notin DOMAIN records
              /\ ~pipe[p].routed
              /\ pipe[p].invoked = "none"
    /\ \A h \in DOMAIN reacts :
          ~reacts[h].gate =>
              /\ reacts[h].pc = "dropped"
              /\ reacts[h].td = 0
              /\ reacts[h].rd = 0

\* the bot is ready now, and before that a message event and a reaction
\* event were delivered and dropped
C1_Witness ==
    /\ ready
    /\ \E p \in DOMAIN pipe : ~pipe[p].gate
    /\ \E h \in DOMAIN reacts : ~reacts[h].gate

\* the three conditions of the deletion guard, on the reaction of handler r
Authorized(r) ==
    /\ r.user # Bot
    /\ r.author # Undefined
    /\ r.user = r.author
    /\ r.user = OriginAuthor(r.msg)
    /\ r.emoji = DeleteEmoji

\* C2: a step removes a message from the transport or a ReplyRecord from the
\* database only as the deletion step of a reactDeleteMessage whose reaction
\* comes from a user other than the bot, who is the persisted origin author
\* of the reacted message, with the configured delete emoji.
C2_DeletionAuthorized ==
    [][ /\ \A m \in channel :
              m \notin channel' =>
                  \E h \in DOMAIN reacts :
                      /\ reacts[h].msg = m
                      /\ reacts[h].pc = "delete"
                      /\ reacts'[h].pc = "dbdelete"
                      /\ Authorized(reacts[h])
        /\ \A o \in DOMAIN records :
              o \notin DOMAIN records' =>
                  \E h \in DOMAIN reacts :
                      /\ o \in FindRecord(records, reacts[h].msg)
                      /\ reacts[h].pc = "dbdelete"
                      /\ reacts'[h].pc = "done"
                      /\ Authorized(reacts[h])
      ]_vars

\* an authorized reaction has deleted its reply, and a reaction with the
\* delete emoji from a user who is not the recorded author was processed and
\* deleted nothing
C2_Witness ==
    /\ \E h \in DOMAIN reacts :
          /\ reacts[h].rd = 1
          /\ reacts[h].msg \notin channel
          /\ Authorized(reacts[h])
    /\ \E g \in DOMAIN reacts :
          /\ reacts[g].gate
          /\ reacts[g].pc = "done"
          /\ reacts[g].emoji = DeleteEmoji
          /\ reacts[g].user \in Humans
          /\ reacts[g].author \in Humans \ {reacts[g].user}
          /\ reacts[g].td = 0

\* C3: once every handler of the reactions on a reply has ended, a reaction
\* with the delete emoji from the recorded origin author, delivered while the
\* bot was ready and the ReplyRecord existed, has led to the Deleted state:
\* the reply is gone from the transport and so is the ReplyRecord.
C3_DeletionLiveness ==
    \A h \in DOMAIN reacts :
        ( /\ reacts[h].auth
          /\ \A g \in DOMAIN reacts :
                reacts[g].msg = reacts[h].msg => reacts[g].pc \in {"done", "fault"} )
        => /\ reacts[h].msg \notin channel
           /\ FindRecord(records, reacts[h].msg) = {}

C5_PipelineOrder ==
    \A p \in DOMAIN pipe :
        /\ pipe[p].routed =>
              /\ ~pipe[p].parsed
              /\ pipe[p].pc \notin {"send", "persist"}
              /\ pipe[p].sent = <<>>
              /\ pipe[p].log = "none"
        /\ pipe[p].parsed =>
              /\ ~pipe[p].routed
              /\ pipe[p].invoked = "none"

\* a message that is also a registered command had its transformation output
\* fail to send, and its pipeline ended without routing the command
C5_Witness ==
    \E p \in DOMAIN pipe :
        /\ pipe[p].parsed
        /\ pipe[p].content.cmd \in Commands
        /\ pipe[p].log = "error"
        /\ pipe[p].pc = "done"
        /\ ~pipe[p].routed

\* what x2iExec must send for the text and limit at hand
Truncated(text, limit, out) ==
    IF Len(text) <= limit
      THEN out = <<PlainReply(text)>>
      ELSE /\ Len(out) = 2
           /\ out[1] = PlainReply(SubSeq(text, 1, limit) \o <<Ellipsis>>)
           /\ Len(out[1].text) = limit + 1
           /\ out[2] = TimeoutNotice

\* C6: for every limit L >= 1 and non-empty text T, x2iExec (of either
\* Conniebot class) sends T alone when length(T) <= L, and otherwise the first
\* L characters of T followed by the ellipsis, then the timeout notice.
C6_Truncation ==
    tpc \in {"current", "legacy"} => Truncated(tText, tLimit, tOut)

\* C7: a connection reset writes no ErrorRecord and does not exit; once the
\* process has exited or a crash handler has ended, every other fault that
\* reached the error handler or the uncaught-exception handler has written
\* exactly one ErrorRecord, and a handler that has ended has exited.
C7_CrashHandling ==
    \A f \in DOMAIN faults :
        /\ faults[f].reset => faults[f].pc = "ignored" /\ faults[f].written = 0
        /\ (~faults[f].reset /\ faults[f].pc # "crashed") =>
              /\ exited => faults[f].written = 1
              /\ faults[f].pc \notin {"ignored", "fault"}
              /\ faults[f].pc = "exited" => faults[f].written = 1

\* C8: whenever ready is true the matcher holds every rule file, all read and
\* none malformed; and when a read or a parse failed, ready is false (startup
\* never runs again, so it stays false).
C8_ReadyImpliesLoaded ==
    /\ ready =>
          /\ x2i = [def |-> TRUE, sets |-> RuleFiles]
          /\ filesRead = RuleFiles
          /\ malformed = {}
          /\ spc = "done"
    /\ (spc = "failed" \/ malformed # {}) => ~ready
    /\ \A p \in DOMAIN pipe :
          pipe[p].gate => x2i = [def |-> TRUE, sets |-> RuleFiles]

\* a document failed to parse after every file was read, and a message that
\* arrived was not processed
C8_Witness ==
    /\ filesRead = RuleFiles
    /\ malformed # {}
    /\ spc = "failed"
    /\ \E p \in DOMAIN pipe : pipe[p].pc = "dropped"

C10_NoPartialRecord ==
    \A p \in DOMAIN pipe :
        /\ p \in DOMAIN records =>
              /\ Len(pipe[p].sent) = Len(pipe[p].responses)
              /\ records[p].replies = pipe[p].sent
              /\ records[p].replies = Ascending(RepliesOf(p))
              /\ records[p].replies # <<>>
              /\ pipe[p].log = "success"
        /\ ( /\ pipe[p].parsed
             /\ pipe[p].pc = "done"
             /\ Len(pipe[p].sent) < Len(pipe[p].responses) )
           => /\ p \notin DOMAIN records
              /\ pipe[p].log = "error"

\* the second part of a truncated reply failed to send after the first was
\* sent: the first part is in the channel, and no record was persisted
C10_Witness ==
    \E p \in DOMAIN pipe :
        /\ Len(pipe[p].responses) = 2
        /\ Len(pipe[p].sent) = 1
        /\ pipe[p].sent[1] \in channel
        /\ pipe[p].pc = "done"
        /\ pipe[p].log = "error"
        /\ p \notin DOMAIN records

\* C11: when a send or the persistence step of origin p failed, the failure
\* is logged, no ReplyRecord exists for p, and no reply sent for p is left in
\* the channel (a reply left there would have no ReplyRecord that could
\* authorize its deletion).
C11_AbsentReply ==
    \A p \in DOMAIN pipe :
        ( /\ pipe[p].parsed
          /\ pipe[p].pc = "done"
          /\ pipe[p].log = "error" )
        => /\ p \notin DOMAIN records
           /\ RepliesOf(p) \cap channel = {}

\* s, a sequence of tokens, joined with one space between neighbours
RECURSIVE Join(_)
Join(s) ==
    IF Len(s) = 0 THEN <<>>
    ELSE IF Len(s) = 1 THEN s[1]
    ELSE s[1] \o <<Space>> \o Join(Tail(s))

\* the token that follows the prefix of a text that starts with it
TokenAfterPrefix(text) ==
    LET rest == Tail(text)
        cut == CHOOSE n \in 0..Len(rest) :
                  /\ \A i \in 1..n : rest[i] # Space
                  /\ n < Len(rest) => rest[n + 1] = Space
    IN  SubSeq(rest, 1, cut)

\* what follows that token and the one space that ends it
Remainder(text) ==
    LET n == Len(TokenAfterPrefix(text)) + 1
    IN  IF n < Len(text) THEN SubSeq(text, n + 2, Len(text)) ELSE <<>>

\* C12: once command() has run on a text: when the text does not start with
\* the prefix or the token after the prefix is not a registered command, no
\* handler was invoked, nothing was logged and command() ended without a
\* fault; when the token is registered, exactly that handler was invoked once,
\* with the remainder of the text split on single spaces.
C12_CommandRouting ==
    rpc = "routed" =>
        IF /\ rText # <<>>
           /\ Head(rText) = Prefix
           /\ \E c \in Commands : TokenAfterPrefix(rText) = <<c>>
          THEN /\ <<rOut.handler>> = TokenAfterPrefix(rText)
               /\ rOut.calls = 1
               /\ ~rOut.fault
               /\ Join(rOut.args) = Remainder(rText)
               /\ \A i \in DOMAIN rOut.args : \A j \in DOMAIN rOut.args[i] :
                      rOut.args[i][j] # Space
          ELSE /\ rOut.handler = "none"
               /\ rOut.calls = 0
               /\ rOut.log = "none"
               /\ ~rOut.fault

\* C13: the step in which command() resumes after its handler leaves the
\* pipeline ended, with the outcome logged under the name of the command that
\* was invoked, and changes nothing else: no ErrorRecord, no exit, no crash
\* handler, and none of the state a later message or reaction is processed
\* against (ready flag, rules, channel, ReplyRecords, other handlers).
C13_HandlerFaultIsolated ==
    [][ \A p \in DOMAIN pipe :
            (pipe[p].pc = "callback" /\ pipe'[p] # pipe[p]) =>
                /\ pipe'[p].pc = "done"
                /\ pipe'[p].cmdLog \in {"success", "error"}
                /\ pipe'[p].invoked = pipe[p].invoked
                /\ pipe[p].invoked \in Commands
                /\ pipe'[p].sent = <<>>
                /\ \A q \in DOMAIN pipe \ {p} : pipe'[q] = pipe[q]
                /\ UNCHANGED <<startVars, msgs, channel, tagging, records, reacts, crashVars>>
      ]_vars

\* a registered handler raised a fault: it is logged, the pipeline of the
\* message has ended, no ErrorRecord was written and the process runs on
C13_Witness ==
    \E p \in DOMAIN pipe :
        /\ pipe[p].invoked \in Commands
        /\ pipe[p].cmdLog = "error"
        /\ pipe[p].pc = "done"
        /\ errors = 0
        /\ faults = <<>>
        /\ ~exited

\* C14: every ReplyRecord lists at least one reply; and each origin message
\* has at most one ReplyRecord: a record is written for an origin that has
\* none, once, and is never written again while it exists.
C14_RecordWellFormed ==
    /\ [](\A o \in DOMAIN records : records[o].replies # <<>>)
    /\ [][ /\ \A o \in DOMAIN records \cap DOMAIN records' : records'[o] = records[o]
           /\ \A p \in DOMAIN pipe :
                 (pipe[p].pc = "persist" /\ pipe'[p].pc # "persist") =>
                     p \notin DOMAIN records
           /\ \A o \in DOMAIN records' \ DOMAIN records :
                 /\ o \in DOMAIN pipe
                 /\ pipe[o].pc = "persist"
                 /\ pipe'[o].log = "success"
      ]_vars

\* a two-part reply has its ReplyRecord, next to the ReplyRecord an earlier
\* run left for another origin
C14_Witness ==
    \E p \in DOMAIN pipe :
        /\ p \in DOMAIN records
        /\ Len(records[p].replies) = 2
        /\ DOMAIN records # {p}

\* C15: in each reactDeleteMessage the transport deletion comes first: the
\* record deletion is pending only once the reacted message was deleted from
\* the transport by this handler; a step that removes a ReplyRecord belongs
\* to such a handler; a handler whose transport deletion failed ends there
\* and leaves channel and ReplyRecords as they were; and a handler that has
\* removed the record has its reacted message gone from the transport.
C15_DeletionOrder ==
    /\ [](\A h \in DOMAIN reacts :
            /\ reacts[h].pc = "dbdelete" =>
                  /\ reacts[h].td = 1
                  /\ reacts[h].rd = 1
                  /\ reacts[h].msg \notin channel
            /\ reacts[h].rd = 1 => reacts[h].td = 1
            /\ (reacts[h].pc = "done" /\ reacts[h].rd = 1) =>
                  /\ reacts[h].msg \notin channel
                  /\ FindRecord(records, reacts[h].msg) = {})
    /\ [][ /\ \A o \in DOMAIN records \ DOMAIN records' :
                 \E h \in DOMAIN reacts :
                     /\ o \in FindRecord(records, reacts[h].msg)
                     /\ reacts[h].pc = "dbdelete"
                     /\ reacts'[h].pc = "done"
                     /\ reacts[h].rd = 1
                     /\ reacts[h].msg \notin channel
           /\ \A h \in DOMAIN reacts :
                 (reacts[h].pc = "delete" /\ reacts'[h].pc # "delete" /\ channel' = channel) =>
                     /\ reacts'[h].pc = "fault"
                     /\ records' = records
      ]_vars

\* a transport deletion failed and its handler left the ReplyRecord alone;
\* another reaction of the author on the same reply then had it deleted
C15_Witness ==
    \E h, g \in DOMAIN reacts :
        /\ reacts[h].pc = "fault"
        /\ reacts[h].rd = 0
        /\ reacts[g].msg = reacts[h].msg
        /\ reacts[g].pc = "done"
        /\ reacts[g].rd = 1
        /\ FindRecord(records, reacts[g].msg) = {}

\* the origin message that m belongs to: m itself, or the message m answers
OriginOf(m) == IF msgs[m].origin = 0 THEN m ELSE msgs[m].origin

\* C16: once a reactDeleteMessage has gone through its transport deletion and
\* its record deletion, every reply of the origin message concerned (each
\* part of a two-part reply, whichever part the reaction was on) is gone from
\* the transport.
C16_AllRepliesGone ==
    \A h \in DOMAIN reacts :
        (reacts[h].pc = "done" /\ reacts[h].rd = 1) =>
            RepliesOf(OriginOf(reacts[h].msg)) \cap channel = {}

\* C17: react() is called on every reply that was sent, and a rejection of it
\* stays without consequence for the bot: it never reaches the crash handler
\* and never ends the process (so that the remaining parts are sent and the
\* ReplyRecord is persisted as they would be without it).
C17_BestEffortTagging ==
    /\ \A p \in DOMAIN pipe : \A i \in DOMAIN pipe[p].sent :
          pipe[p].sent[i] \in DOMAIN tagging
    /\ \A f \in DOMAIN faults : faults[f].src # "rejection"

C19_SingleDeletionAttempt ==
    \A h, g \in DOMAIN reacts :
        (h # g /\ reacts[h].msg = reacts[g].msg) =>
            ~ ( /\ reacts[h].td = 1
                /\ reacts[g].td = 1
                /\ reacts[h].pc \in {"delete", "dbdelete"}
                /\ reacts[g].pc \in {"delete", "dbdelete"} )

\* C20: the pipeline of a message whose author is a bot, the bot's own
\* replies included, ends at once: no transformation, no reply sent for it,
\* no ReplyRecord, no command routed and no handler invoked.
C20_BotMessagesInert ==
    \A p \in DOMAIN pipe :
        msgs[p].author = Bot =>
            /\ pipe[p].pc \in {"done", "dropped"}
            /\ ~pipe[p].parsed
            /\ pipe[p].responses = <<>>
            /\ pipe[p].sent = <<>>
            /\ RepliesOf(p) = {}
            /\ p \notin DOMAIN records
            /\ ~pipe[p].routed
            /\ pipe[p].invoked = "none"
            /\ pipe[p].cmdLog = "none"

\* while ready, the bot was handed one of its own replies, whose text the
\* rules would transform, and a bot's message that names a registered command
C20_Witness ==
    /\ \E p \in DOMAIN pipe :
          /\ msgs[p].origin \in DOMAIN pipe
          /\ pipe[msgs[p].origin].parsed
          /\ pipe[p].gate
    /\ \E q \in Posted :
          /\ msgs[q].author = Bot
          /\ pipe[q].gate
          /\ ready
====
